---- MODULE Spec2Model ----
(***************************************************************************)
(* A model of two pieces of telegram-tt:                                   *)
(*   - src/api/gramjs/methods/payments.ts: the payment, boost, gift and    *)
(*     stars calls, each of which awaits one remote request and turns the  *)
(*     response into an application-level result;                          *)
(*   - src/components/story/privacy/CloseFriends.tsx: the close-friends    *)
(*     picker (search text, working selection, submit button).             *)
(* PaymentsSpec runs the calls, DisplaySpec evaluates the picker's         *)
(* displayedIds over bounded props, ControllerSpec runs the picker's       *)
(* events.                                                                 *)
(***************************************************************************)
EXTENDS Integers, Sequences, FiniteSets

VARIABLES
    \* ---- payments.ts ----
    DEBUG,           \* the build flag imported from config (payments.ts:9)
    lastCall,        \* the call that ran last: [fn, result], result being what invokeRequest resolved to
    returned,        \* what that call returned
    apiUpdates,      \* events handed to sendApiUpdate, oldest first
    gramJsUpdates,   \* values handed to handleGramJsUpdate, oldest first
    localDb,         \* keys registered in the local lookup (documents, web documents)
    warnings,        \* number of console.warn diagnostics written
    nCalls,          \* number of calls made
    \* ---- CloseFriends.tsx ----
    isActive,               \* prop
    currentUserId,          \* prop
    usersById,              \* prop: id -> [present, name, isCloseFriend]
    contactListIds,         \* prop
    searchQuery,            \* useState('')
    isSubmitShown,          \* useState(false)
    newSelectedContactIds,  \* useState([])
    prevDeps,               \* useEffectWithPrevDeps' record of the dependencies at the effect's last run
    externalCalls,          \* invocations of saveCloseFriends and onClose, oldest first
    lastEvent,              \* the event handled last
    changedSinceActivation, \* history: a selection change happened since the last activation
    lastSelection           \* history: the value of the most recent selection change

payVars == <<DEBUG, lastCall, returned, apiUpdates, gramJsUpdates, localDb, warnings, nCalls>>
cfVars == <<isActive, currentUserId, usersById, contactListIds, searchQuery, isSubmitShown,
            newSelectedContactIds, prevDeps, externalCalls, lastEvent, changedSinceActivation,
            lastSelection>>
vars == <<payVars, cfVars>>

(***************************************************************************)
(* Bounds                                                                  *)
(***************************************************************************)
MaxCalls == 2
MaxContacts == 4
MaxCommits == 1

(***************************************************************************)
(* payments.ts                                                             *)
(***************************************************************************)

\* The values a call returns.
Undefined == [tag |-> "undefined"]
Bool(b) == [tag |-> "boolean", value |-> b]
Obj(keys) == [tag |-> "object", keys |-> keys]
ErrorObj == [tag |-> "error"]
List == [tag |-> "array"]

\* What invokeRequest resolves to.
Absent == [type |-> "Absent"]
PaymentVerificationNeeded(url) == [type |-> "PaymentVerificationNeeded", url |-> url]
PaymentResult(updates) == [type |-> "PaymentResult", updates |-> updates]
Plain == [type |-> "Result"]

Urls == {"https://a.example/3ds", "https://b.example/3ds"}
UpdateBatches == {"updates1", "updates2"}
WebDocuments == {"photo1", "photo2"}
DocumentIds == {"doc1", "doc2"}

Truthy(result) == result # Absent

\* What one call does besides its remote request.
Effects(ret, send, handle, register, warn) ==
    [ret |-> ret, send |-> send, handle |-> handle, register |-> register, warn |-> warn]
Returns(ret) == Effects(ret, <<>>, <<>>, {}, 0)

validateRequestedInfoResults ==
    {Absent} \cup {[type |-> "ValidatedRequestedInfo", id |-> i] : i \in {"", "info1"}}

validateRequestedInfo(result) ==
    IF ~Truthy(result) THEN Returns(Undefined)
    ELSE IF result.id = "" THEN Returns(Undefined)
    ELSE Returns(Obj({"id", "shippingOptions"}))

PaymentFormResults ==
    {Absent} \cup {PaymentVerificationNeeded(u) : u \in Urls}
             \cup {PaymentResult(u) : u \in UpdateBatches}

\* Mutants of sendPaymentForm: an absent result answered like the other calls do, and
\* the verification branch without its early return.
sendPaymentForm_AbsentUndefined(result) ==
    IF ~Truthy(result) THEN Returns(Undefined)
    ELSE IF result.type = "PaymentVerificationNeeded"
    THEN Effects(Undefined,
                 <<[type |-> "updatePaymentVerificationNeeded", url |-> result.url]>>,
                 <<>>, {}, 0)
    ELSE Effects(Bool(Truthy(result)), <<>>, <<result.updates>>, {}, 0)

sendPaymentForm_NoEarlyReturn(result) ==
    IF ~Truthy(result) THEN Returns(Bool(FALSE))
    ELSE IF result.type = "PaymentVerificationNeeded"
    THEN Effects(Bool(Truthy(result)),
                 <<[type |-> "updatePaymentVerificationNeeded", url |-> result.url]>>,
                 <<>>, {}, 0)
    ELSE Effects(Bool(Truthy(result)), <<>>, <<result.updates>>, {}, 0)

sendPaymentForm(result) ==
    IF ~Truthy(result) THEN Returns(Bool(FALSE))
    ELSE IF result.type = "PaymentVerificationNeeded"
    THEN Effects(Undefined,
                 <<[type |-> "updatePaymentVerificationNeeded", url |-> result.url]>>,
                 <<>>, {}, 0)
    ELSE Effects(Bool(Truthy(result)), <<>>, <<result.updates>>, {}, 0)

\* Mutants of sendStarPaymentForm: the success path without its final return, and the
\* verification branch copied from sendPaymentForm with its notification.
sendStarPaymentForm_NoFinalReturn(result) ==
    IF ~Truthy(result) THEN Returns(Bool(FALSE))
    ELSE IF result.type = "PaymentVerificationNeeded"
    THEN Effects(Undefined, <<>>, <<>>, {}, IF DEBUG THEN 1 ELSE 0)
    ELSE Effects(Undefined, <<>>, <<result.updates>>, {}, 0)

sendStarPaymentForm_Notifies(result) ==
    IF ~Truthy(result) THEN Returns(Bool(FALSE))
    ELSE IF result.type = "PaymentVerificationNeeded"
    THEN Effects(Undefined,
                 <<[type |-> "updatePaymentVerificationNeeded", url |-> result.url]>>,
                 <<>>, {}, IF DEBUG THEN 1 ELSE 0)
    ELSE Effects(Bool(Truthy(result)), <<>>, <<result.updates>>, {}, 0)

sendStarPaymentForm(result) ==
    IF ~Truthy(result) THEN Returns(Bool(FALSE))
    ELSE IF result.type = "PaymentVerificationNeeded"
    THEN Effects(Undefined, <<>>, <<>>, {}, IF DEBUG THEN 1 ELSE 0)
    ELSE Effects(Bool(Truthy(result)), <<>>, <<result.updates>>, {}, 0)

getPaymentFormResults ==
    {Absent} \cup {[type |-> "PaymentForm", photo |-> p] : p \in WebDocuments \cup {"none"}}

getPaymentForm(result) ==
    IF ~Truthy(result) THEN Returns(Undefined)
    ELSE Effects(Obj({"form", "invoice"}), <<>>, <<>>,
                 IF result.photo # "none" THEN {result.photo} ELSE {}, 0)

PlainResults == {Absent, Plain}

getReceipt(result) ==
    IF ~Truthy(result) THEN Returns(Undefined) ELSE Returns(Obj({"receipt"}))

\* A video of the promo: a Document with an id, or another variant.
Videos == {[isDocument |-> TRUE, id |-> d] : d \in DocumentIds}
              \cup {[isDocument |-> FALSE, id |-> "empty"]}
fetchPremiumPromoResults ==
    {Absent} \cup {[type |-> "PremiumPromo", videos |-> v] :
                      v \in {<<>>} \cup {<<a>> : a \in Videos}
                                   \cup {<<a, b>> : <<a, b>> \in Videos \X Videos}}

fetchPremiumPromo(result) ==
    IF ~Truthy(result) THEN Returns(Undefined)
    ELSE Effects(Obj({"promo"}), <<>>, <<>>,
                 {result.videos[i].id : i \in {j \in DOMAIN result.videos :
                                                   result.videos[j].isDocument}}, 0)

fetchTemporaryPaymentPasswordResults ==
    {Absent, [type |-> "Error"], [type |-> "TmpPassword"]}

fetchTemporaryPaymentPassword(result) ==
    IF ~Truthy(result) THEN Returns(Undefined)
    ELSE IF result.type = "Error" THEN Returns(ErrorObj)
    ELSE Returns(Obj({"value", "validUntil"}))

fetchMyBoosts(result) ==
    IF ~Truthy(result) THEN Returns(Undefined) ELSE Returns(Obj({"boosts"}))

applyBoost(result) ==
    IF ~Truthy(result) THEN Returns(Undefined) ELSE Returns(Obj({"boosts"}))

fetchBoostStatus(result) ==
    IF ~Truthy(result) THEN Returns(Undefined) ELSE Returns(Obj({"boostsStatus"}))

fetchBoostList(result) ==
    IF ~Truthy(result) THEN Returns(Undefined)
    ELSE Returns(Obj({"count", "boostList", "nextOffset"}))

fetchGiveawayInfo(result) ==
    IF ~Truthy(result) THEN Returns(Undefined) ELSE Returns(Obj({"giveawayInfo"}))

checkGiftCode(result) ==
    IF ~Truthy(result) THEN Returns(Undefined) ELSE Returns(Obj({"code"}))

\* With shouldReturnTrue the request resolves to true, or to nothing.
ReturnTrueResults == {Absent, [type |-> "True"]}

applyGiftCode(result) ==
    IF Truthy(result) THEN Returns(Bool(TRUE)) ELSE Returns(Undefined)

getPremiumGiftCodeOptions(result) ==
    IF ~Truthy(result) THEN Returns(Undefined) ELSE Returns(List)

getStarsGiftOptions(result) ==
    IF ~Truthy(result) THEN Returns(Undefined) ELSE Returns(List)

fetchStarsGiveawayOptions(result) ==
    IF ~Truthy(result) THEN Returns(Undefined) ELSE Returns(List)

launchPrepaidGiveaway(result) ==
    IF Truthy(result) THEN Returns(Bool(TRUE)) ELSE Returns(Undefined)

fetchStarsStatus(result) ==
    IF ~Truthy(result) THEN Returns(Undefined)
    ELSE Returns(Obj({"nextOffset", "history", "balance"}))

fetchStarsTransactions(result) ==
    IF ~Truthy(result) THEN Returns(Undefined)
    ELSE Returns(Obj({"nextOffset", "history", "balance"}))

\* history is missing (length -1), empty, or holds transactions.
fetchStarsTransactionByIdResults ==
    {Absent} \cup {[type |-> "StarsStatus", historyLen |-> n] : n \in {-1, 0, 1}}

fetchStarsTransactionById(result) ==
    IF ~Truthy(result) THEN Returns(Undefined)
    ELSE IF result.historyLen < 1 THEN Returns(Undefined)
    ELSE Returns(Obj({"transaction"}))

fetchStarsTopupOptions(result) ==
    IF ~Truthy(result) THEN Returns(Undefined) ELSE Returns(List)

\* One call: the request is awaited and the rest of the function runs on its result.
Invoke(fn, result, e) ==
    /\ nCalls' = nCalls + 1
    /\ lastCall' = [fn |-> fn, result |-> result]
    /\ returned' = e.ret
    /\ apiUpdates' = apiUpdates \o e.send
    /\ gramJsUpdates' = gramJsUpdates \o e.handle
    /\ localDb' = localDb \cup e.register
    /\ warnings' = warnings + e.warn
    /\ UNCHANGED <<DEBUG, cfVars>>

CallValidateRequestedInfo ==
    /\ nCalls < MaxCalls
    /\ \E r \in validateRequestedInfoResults : Invoke("validateRequestedInfo", r, validateRequestedInfo(r))
CallSendPaymentForm ==
    /\ nCalls < MaxCalls
    /\ \E r \in PaymentFormResults : Invoke("sendPaymentForm", r, sendPaymentForm(r))
CallSendStarPaymentForm ==
    /\ nCalls < MaxCalls
    /\ \E r \in PaymentFormResults : Invoke("sendStarPaymentForm", r, sendStarPaymentForm(r))
CallGetPaymentForm ==
    /\ nCalls < MaxCalls
    /\ \E r \in getPaymentFormResults : Invoke("getPaymentForm", r, getPaymentForm(r))
CallGetReceipt ==
    /\ nCalls < MaxCalls
    /\ \E r \in PlainResults : Invoke("getReceipt", r, getReceipt(r))
CallFetchPremiumPromo ==
    /\ nCalls < MaxCalls
    /\ \E r \in fetchPremiumPromoResults : Invoke("fetchPremiumPromo", r, fetchPremiumPromo(r))
CallFetchTemporaryPaymentPassword ==
    /\ nCalls < MaxCalls
    /\ \E r \in fetchTemporaryPaymentPasswordResults :
        Invoke("fetchTemporaryPaymentPassword", r, fetchTemporaryPaymentPassword(r))
CallFetchMyBoosts ==
    /\ nCalls < MaxCalls
    /\ \E r \in PlainResults : Invoke("fetchMyBoosts", r, fetchMyBoosts(r))
CallApplyBoost ==
    /\ nCalls < MaxCalls
    /\ \E r \in PlainResults : Invoke("applyBoost", r, applyBoost(r))
CallFetchBoostStatus ==
    /\ nCalls < MaxCalls
    /\ \E r \in PlainResults : Invoke("fetchBoostStatus", r, fetchBoostStatus(r))
CallFetchBoostList ==
    /\ nCalls < MaxCalls
    /\ \E r \in PlainResults : Invoke("fetchBoostList", r, fetchBoostList(r))
CallFetchGiveawayInfo ==
    /\ nCalls < MaxCalls
    /\ \E r \in PlainResults : Invoke("fetchGiveawayInfo", r, fetchGiveawayInfo(r))
CallCheckGiftCode ==
    /\ nCalls < MaxCalls
    /\ \E r \in PlainResults : Invoke("checkGiftCode", r, checkGiftCode(r))
CallApplyGiftCode ==
    /\ nCalls < MaxCalls
    /\ \E r \in ReturnTrueResults : Invoke("applyGiftCode", r, applyGiftCode(r))
CallGetPremiumGiftCodeOptions ==
    /\ nCalls < MaxCalls
    /\ \E r \in PlainResults : Invoke("getPremiumGiftCodeOptions", r, getPremiumGiftCodeOptions(r))
CallGetStarsGiftOptions ==
    /\ nCalls < MaxCalls
    /\ \E r \in PlainResults : Invoke("getStarsGiftOptions", r, getStarsGiftOptions(r))
CallFetchStarsGiveawayOptions ==
    /\ nCalls < MaxCalls
    /\ \E r \in PlainResults : Invoke("fetchStarsGiveawayOptions", r, fetchStarsGiveawayOptions(r))
CallLaunchPrepaidGiveaway ==
    /\ nCalls < MaxCalls
    /\ \E r \in ReturnTrueResults : Invoke("launchPrepaidGiveaway", r, launchPrepaidGiveaway(r))
CallFetchStarsStatus ==
    /\ nCalls < MaxCalls
    /\ \E r \in PlainResults : Invoke("fetchStarsStatus", r, fetchStarsStatus(r))
CallFetchStarsTransactions ==
    /\ nCalls < MaxCalls
    /\ \E r \in PlainResults : Invoke("fetchStarsTransactions", r, fetchStarsTransactions(r))
CallFetchStarsTransactionById ==
    /\ nCalls < MaxCalls
    /\ \E r \in fetchStarsTransactionByIdResults :
        Invoke("fetchStarsTransactionById", r, fetchStarsTransactionById(r))
CallFetchStarsTopupOptions ==
    /\ nCalls < MaxCalls
    /\ \E r \in PlainResults : Invoke("fetchStarsTopupOptions", r, fetchStarsTopupOptions(r))

PaymentsInit ==
    /\ DEBUG \in BOOLEAN
    /\ lastCall = [fn |-> "none", result |-> Absent]
    /\ returned = Undefined
    /\ apiUpdates = <<>>
    /\ gramJsUpdates = <<>>
    /\ localDb = {}
    /\ warnings = 0
    /\ nCalls = 0

PaymentsNext ==
    \/ CallValidateRequestedInfo
    \/ CallSendPaymentForm
    \/ CallSendStarPaymentForm
    \/ CallGetPaymentForm
    \/ CallGetReceipt
    \/ CallFetchPremiumPromo
    \/ CallFetchTemporaryPaymentPassword
    \/ CallFetchMyBoosts
    \/ CallApplyBoost
    \/ CallFetchBoostStatus
    \/ CallFetchBoostList
    \/ CallFetchGiveawayInfo
    \/ CallCheckGiftCode
    \/ CallApplyGiftCode
    \/ CallGetPremiumGiftCodeOptions
    \/ CallGetStarsGiftOptions
    \/ CallFetchStarsGiveawayOptions
    \/ CallLaunchPrepaidGiveaway
    \/ CallFetchStarsStatus
    \/ CallFetchStarsTransactions
    \/ CallFetchStarsTransactionById
    \/ CallFetchStarsTopupOptions

(***************************************************************************)
(* CloseFriends.tsx                                                        *)
(***************************************************************************)
Ids == {"me", "A", "B", "C", "D"}

\* A user's full name, as a sequence of characters.
NameOf(id) ==
    CASE id = "me" -> <<"m", "e">>
      [] id = "A" -> <<"a", "n">>
      [] id = "B" -> <<"b", "o">>
      [] id = "C" -> <<"a", "l">>
      [] OTHER -> <<"b", "a">>

\* usersById maps the ids of the known users; an id outside its domain reads as undefined.
UserRecord(id, isCloseFriend) == [name |-> NameOf(id), isCloseFriend |-> isCloseFriend]
UsersMaps(known) ==
    UNION {{[id \in S |-> UserRecord(id, id \in F)] : F \in SUBSET S} : S \in known}

\* The sets of users usersById knows in DisplaySpec.
KnownSets == {Ids, Ids \ {"D"}}

BoundedSeqs(S, n) == UNION {[1..k -> S] : k \in 0..n}
Queries == {<<>>, <<"a">>, <<"b", "o">>}

\* unique(array): Array.from(new Set(array)), each value kept at its first occurrence.
RECURSIVE unique(_)
unique(array) ==
    IF array = <<>> THEN <<>>
    ELSE LET front == unique(SubSeq(array, 1, Len(array) - 1))
             last == array[Len(array)]
         IN  IF \E i \in DOMAIN front : front[i] = last THEN front ELSE Append(front, last)

\* The search text matches a name that starts with it.
searchWords(name, query) ==
    /\ Len(query) <= Len(name)
    /\ \A i \in DOMAIN query : name[i] = query[i]

\* filterUsersByName(userIds, usersById, query): every id when there is no query,
\* otherwise the ids of the known users whose name matches it.
filterUsersByName(userIds, users, query) ==
    IF query = <<>> THEN userIds
    ELSE SelectSeq(userIds, LAMBDA id : id \in DOMAIN users /\ searchWords(users[id].name, query))

closeFriendIdsOf(contacts, users) ==
    SelectSeq(contacts, LAMBDA userId : userId \in DOMAIN users /\ users[userId].isCloseFriend)

closeFriendIds == closeFriendIdsOf(contactListIds, usersById)

\* Mutants of displayedIds: the name filter applied to the contacts only, and the
\* contacts put before the close friends.
displayedIds_FriendsUnfiltered ==
    LET contactIds == SelectSeq(contactListIds, LAMBDA id : id # currentUserId)
    IN  unique(closeFriendIds \o filterUsersByName(contactIds, usersById, searchQuery))

displayedIds_ContactsFirst ==
    LET contactIds == SelectSeq(contactListIds, LAMBDA id : id # currentUserId)
    IN  unique(filterUsersByName(contactIds \o closeFriendIds, usersById, searchQuery))

displayedIds ==
    LET contactIds == SelectSeq(contactListIds, LAMBDA id : id # currentUserId)
    IN  unique(filterUsersByName(closeFriendIds \o contactIds, usersById, searchQuery))

\* Mutant of activationEffect: the reset done on every run while active, not only on
\* the rising edge.
activationEffect_NoEdge(prev, active, friends, submitShown, selected) ==
    IF prev = <<active, friends>>
    THEN [prevDeps |-> prev, isSubmitShown |-> submitShown, newSelectedContactIds |-> selected]
    ELSE IF active
         THEN [prevDeps |-> <<active, friends>>, isSubmitShown |-> FALSE,
               newSelectedContactIds |-> friends]
         ELSE [prevDeps |-> <<active, friends>>, isSubmitShown |-> submitShown,
               newSelectedContactIds |-> selected]

\* useEffectWithPrevDeps(cb, [isActive, closeFriendIds]): when a dependency differs from
\* the ones of the last run (or on the first render), cb runs with the previous
\* dependencies, undefined ones (<<>>) on the first run. What the hooks hold afterwards.
activationEffect(prev, active, friends, submitShown, selected) ==
    IF prev = <<active, friends>>
    THEN [prevDeps |-> prev, isSubmitShown |-> submitShown, newSelectedContactIds |-> selected]
    ELSE LET prevIsActive == IF prev = <<>> THEN FALSE ELSE prev[1]
         IN  IF ~prevIsActive /\ active
             THEN [prevDeps |-> <<active, friends>>, isSubmitShown |-> FALSE,
                   newSelectedContactIds |-> friends]
             ELSE [prevDeps |-> <<active, friends>>, isSubmitShown |-> submitShown,
                   newSelectedContactIds |-> selected]

\* The component right after its first render with the given props.
Mounted(active, contacts, users) ==
    LET e == activationEffect(<<>>, active, closeFriendIdsOf(contacts, users), FALSE, <<>>)
    IN  /\ isActive = active
        /\ currentUserId = "me"
        /\ usersById = users
        /\ contactListIds = contacts
        /\ searchQuery = <<>>
        /\ isSubmitShown = e.isSubmitShown
        /\ newSelectedContactIds = e.newSelectedContactIds
        /\ prevDeps = e.prevDeps
        /\ externalCalls = <<>>
        /\ lastEvent = "mount"
        /\ changedSinceActivation = FALSE
    /\ lastSelection = <<>>
        /\ lastSelection = <<>>

\* A render with the given props, and the effect that follows it.
Render(active, contacts, users) ==
    LET e == activationEffect(prevDeps, active, closeFriendIdsOf(contacts, users),
                              isSubmitShown, newSelectedContactIds)
    IN  /\ isActive' = active
        /\ usersById' = users
        /\ contactListIds' = contacts
        /\ isSubmitShown' = e.isSubmitShown
        /\ newSelectedContactIds' = e.newSelectedContactIds
        /\ prevDeps' = e.prevDeps
        /\ changedSinceActivation' = IF ~isActive /\ active THEN FALSE ELSE changedSinceActivation
        /\ UNCHANGED <<currentUserId, searchQuery, externalCalls, lastSelection, payVars>>

\* The props the container hands over in ControllerSpec.
ControllerContacts == {<<>>, <<"A", "C">>, <<"C", "A", "D", "B">>}
ControllerUsers == UNION {{[id \in Ids |-> UserRecord(id, id \in F)]} : F \in {{}, {"A"}, {"A", "B"}}}
SelectionValues == {<<>>, <<"A">>, <<"A", "B">>, <<"A", "C">>, <<"D">>}

Activate ==
    /\ ~isActive
    /\ \E contacts \in ControllerContacts, users \in ControllerUsers :
           Render(TRUE, contacts, users)
    /\ lastEvent' = "activate"

Deactivate ==
    /\ isActive
    /\ Render(FALSE, contactListIds, usersById)
    /\ lastEvent' = "deactivate"

Rerender ==
    /\ Render(isActive, contactListIds, usersById)
    /\ lastEvent' = "rerender"

ChangeBaseline ==
    /\ \E contacts \in ControllerContacts, users \in ControllerUsers :
           /\ <<contacts, users>> # <<contactListIds, usersById>>
           /\ Render(isActive, contacts, users)
    /\ lastEvent' = "changeBaseline"

\* onFilterChange={setSearchQuery}
setSearchQuery ==
    /\ \E text \in Queries : searchQuery' = text
    /\ lastEvent' = "setFilterText"
    /\ UNCHANGED <<isActive, currentUserId, usersById, contactListIds, isSubmitShown,
                   newSelectedContactIds, prevDeps, externalCalls, changedSinceActivation,
                   lastSelection, payVars>>

\* Mutant of handleSelectedContactIdsChange: the button shown only for a selection that
\* differs from the close friends.
handleSelectedContactIdsChange_DetectsNoop ==
    /\ \E value \in SelectionValues :
           /\ newSelectedContactIds' = value
           /\ lastSelection' = value
           /\ isSubmitShown' = (value # closeFriendIds)
    /\ lastEvent' = "changeSelection"
    /\ changedSinceActivation' = TRUE
    /\ UNCHANGED <<isActive, currentUserId, usersById, contactListIds, searchQuery,
                   prevDeps, externalCalls, payVars>>

handleSelectedContactIdsChange ==
    /\ \E value \in SelectionValues :
           /\ newSelectedContactIds' = value
           /\ lastSelection' = value
    /\ isSubmitShown' = TRUE
    /\ lastEvent' = "changeSelection"
    /\ changedSinceActivation' = TRUE
    /\ UNCHANGED <<isActive, currentUserId, usersById, contactListIds, searchQuery,
                   prevDeps, externalCalls, payVars>>

\* Mutant of handleSubmit: the close friends saved instead of the working selection.
handleSubmit_SavesBaseline ==
    /\ Len(externalCalls) < 2 * MaxCommits
    /\ externalCalls' = externalCalls \o
           <<[call |-> "saveCloseFriends", userIds |-> closeFriendIds],
             [call |-> "onClose", userIds |-> <<>>]>>
    /\ lastEvent' = "commit"
    /\ UNCHANGED <<isActive, currentUserId, usersById, contactListIds, searchQuery,
                   isSubmitShown, newSelectedContactIds, prevDeps, changedSinceActivation,
                   lastSelection, payVars>>

handleSubmit ==
    /\ Len(externalCalls) < 2 * MaxCommits
    /\ externalCalls' = externalCalls \o
           <<[call |-> "saveCloseFriends", userIds |-> newSelectedContactIds],
             [call |-> "onClose", userIds |-> <<>>]>>
    /\ lastEvent' = "commit"
    /\ UNCHANGED <<isActive, currentUserId, usersById, contactListIds, searchQuery,
                   isSubmitShown, newSelectedContactIds, prevDeps, changedSinceActivation,
                   lastSelection, payVars>>

\* The picker before it is mounted, for the runs of the payments calls.
Unmounted ==
    /\ isActive = FALSE
    /\ currentUserId = "me"
    /\ usersById = <<>>
    /\ contactListIds = <<>>
    /\ searchQuery = <<>>
    /\ isSubmitShown = FALSE
    /\ newSelectedContactIds = <<>>
    /\ prevDeps = <<>>
    /\ externalCalls = <<>>
    /\ lastEvent = "none"
    /\ changedSinceActivation = FALSE
    /\ lastSelection = <<>>

(***************************************************************************)
(* Specifications                                                          *)
(***************************************************************************)
PaymentsSpecInit ==
    /\ PaymentsInit
    /\ Unmounted
PaymentsSpec == PaymentsSpecInit /\ [][PaymentsNext]_vars

DisplayInit ==
    /\ PaymentsInit
    /\ DEBUG = FALSE
    /\ \E contacts \in BoundedSeqs(Ids, MaxContacts), users \in UsersMaps(KnownSets) :
           Mounted(FALSE, contacts, users)
DisplayNext == setSearchQuery
DisplaySpec == DisplayInit /\ [][DisplayNext]_vars

ControllerInit ==
    /\ PaymentsInit
    /\ DEBUG = FALSE
    /\ \E active \in BOOLEAN, contacts \in ControllerContacts, users \in ControllerUsers :
           Mounted(active, contacts, users)
ControllerNext ==
    \/ Activate
    \/ Deactivate
    \/ Rerender
    \/ ChangeBaseline
    \/ setSearchQuery
    \/ handleSelectedContactIdsChange
    \/ handleSubmit
ControllerSpec == ControllerInit /\ [][ControllerNext]_vars

(***************************************************************************)
(* Claims about payments.ts (PaymentsSpec)                                 *)
(***************************************************************************)
IsCall == nCalls' # nCalls
PaymentSubmissions == {"sendPaymentForm", "sendStarPaymentForm"}
NothingPublished == apiUpdates' = apiUpdates
NothingHandled == gramJsUpdates' = gramJsUpdates
NothingRegistered == localDb' = localDb

\* C1 as stated: every call whose request yields no result returns undefined, publishes
\* no notification, processes no updates and registers nothing in the local cache.
C1_AbsentReturnsUndefined ==
    [][(IsCall /\ lastCall'.result = Absent)
          => /\ returned' = Undefined
             /\ NothingPublished /\ NothingHandled /\ NothingRegistered]_vars

\* C1 amended: on no result sendPaymentForm and sendStarPaymentForm return false and
\* every other call returns undefined; no call publishes a notification, processes
\* updates, registers anything in the local cache or writes a diagnostic.
C1_AbsentResult ==
    [][(IsCall /\ lastCall'.result = Absent)
          => /\ returned' = IF lastCall'.fn \in PaymentSubmissions THEN Bool(FALSE) ELSE Undefined
             /\ NothingPublished /\ NothingHandled /\ NothingRegistered
             /\ warnings' = warnings]_vars

C1_Witness ==
    /\ lastCall = [fn |-> "sendPaymentForm", result |-> Absent]
    /\ returned = Bool(FALSE)
    /\ nCalls = 2
    /\ apiUpdates # <<>>

\* C2: on PaymentVerificationNeeded sendPaymentForm returns undefined, publishes exactly
\* one updatePaymentVerificationNeeded event carrying the response's url, and hands
\* nothing to the update handler.
C2_VerificationNeeded ==
    [][(IsCall /\ lastCall'.fn = "sendPaymentForm"
               /\ lastCall'.result.type = "PaymentVerificationNeeded")
          => /\ returned' = Undefined
             /\ apiUpdates' = Append(apiUpdates, [type |-> "updatePaymentVerificationNeeded",
                                                  url |-> lastCall'.result.url])
             /\ NothingHandled]_vars

C2_Witness ==
    /\ lastCall.fn = "sendPaymentForm"
    /\ lastCall.result.type = "PaymentVerificationNeeded"
    /\ returned = Undefined
    /\ Len(apiUpdates) = 2
    /\ apiUpdates[2].url = lastCall.result.url
    /\ apiUpdates[1].url # apiUpdates[2].url

\* C3: a payment submission whose response is a result other than
\* PaymentVerificationNeeded returns true and publishes no notification.
C3_SuccessReturnsTrue ==
    [][(IsCall /\ lastCall'.fn \in PaymentSubmissions
               /\ lastCall'.result.type = "PaymentResult")
          => /\ returned' = Bool(TRUE)
             /\ NothingPublished]_vars

C3_Witness ==
    /\ lastCall.fn = "sendStarPaymentForm"
    /\ lastCall.result.type = "PaymentResult"
    /\ returned = Bool(TRUE)
    /\ gramJsUpdates = <<lastCall.result.updates>>
    /\ apiUpdates = <<>>

\* C4 as stated: on PaymentVerificationNeeded sendStarPaymentForm records a diagnostic,
\* publishes nothing and goes on as for a success: the update handler runs and the
\* completion result is returned.
C4_FallsThrough ==
    [][(IsCall /\ lastCall'.fn = "sendStarPaymentForm"
               /\ lastCall'.result.type = "PaymentVerificationNeeded")
          => /\ warnings' = warnings + 1
             /\ NothingPublished
             /\ Len(gramJsUpdates') = Len(gramJsUpdates) + 1
             /\ returned' = Bool(TRUE)]_vars

\* C4 amended: on PaymentVerificationNeeded sendStarPaymentForm writes its diagnostic
\* when DEBUG is on (and none otherwise), publishes nothing, and returns undefined at
\* once: the update handler does not run and no completion result is returned.
C4_ReturnsEarly ==
    [][(IsCall /\ lastCall'.fn = "sendStarPaymentForm"
               /\ lastCall'.result.type = "PaymentVerificationNeeded")
          => /\ warnings' = warnings + (IF DEBUG THEN 1 ELSE 0)
             /\ NothingPublished
             /\ NothingHandled
             /\ returned' = Undefined]_vars

C4_Witness ==
    /\ lastCall.fn = "sendStarPaymentForm"
    /\ lastCall.result.type = "PaymentVerificationNeeded"
    /\ DEBUG
    /\ warnings = 1
    /\ returned = Undefined
    /\ apiUpdates = <<>>
    /\ gramJsUpdates = <<>>

(***************************************************************************)
(* Claims about displayedIds (DisplaySpec)                                 *)
(***************************************************************************)
Range(seq) == {seq[i] : i \in DOMAIN seq}
FirstIndex(id) == CHOOSE i \in DOMAIN contactListIds :
                      /\ contactListIds[i] = id
                      /\ \A j \in 1..(i - 1) : contactListIds[j] # id

\* C6 as stated: displayedIds holds every close friend of the contact list, whatever
\* the search text.
C6_FriendsAlwaysDisplayed ==
    LET displayed == Range(displayedIds)
    IN  \A id \in Range(closeFriendIds) : id \in displayed

\* C6 amended: displayedIds holds every close friend of the contact list when the search
\* text is empty; with a search text it holds exactly the close friends that match it,
\* and a close friend that does not match is not displayed.
C6_FriendsDisplayedWhenMatching ==
    LET displayed == Range(displayedIds)
    IN  \A id \in Range(closeFriendIds) :
            id \in displayed
                <=> (searchQuery = <<>> \/ searchWords(usersById[id].name, searchQuery))

C6_Witness ==
    /\ searchQuery = <<"a">>
    /\ closeFriendIds = <<"A", "B">>
    /\ displayedIds = <<"A", "C">>

\* C7: displayedIds never holds the acting user's own id and holds no id twice.
C7_NoSelfNoDuplicates ==
    LET d == displayedIds
    IN  /\ currentUserId \notin Range(d)
        /\ \A i, j \in DOMAIN d : i # j => d[i] # d[j]

\* C8: displayedIds lists the displayed close friends first, then the other displayed
\* contacts, each group in the order of first occurrence in the contact list and each
\* id once; close friends {A, B} of the contact list [C, A, D, B] without search text
\* give [A, B, C, D].
C8_FriendsFirstInListOrder ==
    LET d == displayedIds
        friends == Range(closeFriendIds)
    IN  /\ Range(d) \subseteq Range(contactListIds)
        /\ \A i, j \in DOMAIN d :
               i < j => /\ d[i] # d[j]
                        /\ d[j] \in friends => d[i] \in friends
                        /\ (d[i] \in friends) = (d[j] \in friends)
                               => FirstIndex(d[i]) < FirstIndex(d[j])
        /\ (contactListIds = <<"C", "A", "D", "B">> /\ friends = {"A", "B"}
                /\ searchQuery = <<>>)
               => d = <<"A", "B", "C", "D">>

C8_Witness ==
    /\ contactListIds = <<"C", "A", "D", "B">>
    /\ closeFriendIds = <<"A", "B">>
    /\ searchQuery = <<>>
    /\ lastEvent = "setFilterText"
    /\ displayedIds = <<"A", "B", "C", "D">>

(***************************************************************************)
(* Claims about the picker's events (ControllerSpec)                       *)
(***************************************************************************)
RisingEdge == ~isActive /\ isActive'

\* C5: the working selection becomes the close friends on every step that takes
\* isActive from false to true, and on any other step it changes only by a selection
\* change: a re-render, a change of the close friends, a search text change, a
\* deactivation and a commit leave it as it is.
C5_WorkingResetOnlyOnActivation ==
    [][/\ RisingEdge => newSelectedContactIds' = closeFriendIds'
       /\ (~RisingEdge /\ lastEvent' # "changeSelection")
              => newSelectedContactIds' = newSelectedContactIds]_vars

C5_Witness ==
    /\ lastEvent = "changeBaseline"
    /\ isActive
    /\ changedSinceActivation
    /\ closeFriendIds = <<"A", "B">>
    /\ newSelectedContactIds = <<"D">>

\* C9: a commit calls saveCloseFriends once with the working selection, which is the
\* value of the most recent selection change when one happened since activation, then
\* onClose once, and changes neither the working selection nor anything else of the
\* picker.
C9_CommitSavesWorkingThenCloses ==
    [][lastEvent' = "commit"
          => /\ externalCalls' = externalCalls \o
                    <<[call |-> "saveCloseFriends", userIds |-> newSelectedContactIds],
                      [call |-> "onClose", userIds |-> <<>>]>>
             /\ changedSinceActivation => newSelectedContactIds = lastSelection
             /\ UNCHANGED <<newSelectedContactIds, isSubmitShown, isActive, searchQuery>>]_vars

C9_Witness ==
    /\ lastEvent = "commit"
    /\ closeFriendIds = <<"A", "B">>
    /\ searchQuery = <<"a">>
    /\ externalCalls = <<[call |-> "saveCloseFriends", userIds |-> <<"A", "C">>],
                         [call |-> "onClose", userIds |-> <<>>]>>

\* C10: the submit button is shown exactly when a selection change happened since the
\* last step that took isActive from false to true.
C10_SubmitShownIffChanged ==
    isSubmitShown = changedSinceActivation

C10_Witness ==
    /\ lastEvent = "changeSelection"
    /\ isActive
    /\ isSubmitShown
    /\ closeFriendIds = <<"A", "B">>
    /\ newSelectedContactIds = closeFriendIds

====
